---- MODULE Spec2Model ----
(***************************************************************************)
(* A model of src/app.py: a Flask service with two JSON handlers,          *)
(* get_video_info (POST /api/video-info) and download_video                *)
(* (POST /api/download), built on the yt_dlp extraction library and a      *)
(* shared output directory DOWNLOAD_FOLDER.                                *)
(*                                                                         *)
(* Strings are sequences of one-character strings, so that startswith,     *)
(* endswith, strip, the regular expression of validate_youtube_url and the *)
(* character removal of sanitize_filename are computed, not assumed.       *)
(***************************************************************************)
EXTENDS Integers, Sequences, FiniteSets, TLC

(***************************************************************************)
(* Bounds of the model.                                                    *)
(***************************************************************************)
\* number of download requests the server gets, one after the other's arrival
NumReqs == 1
\* number of download requests in flight together in the racing specification
NumRacing == 2
\* length of the format list the collaborator returns to get_video_info
MaxFormats == 2
\* length of the short strings sanitize_filename is applied to
MaxShort == 2
\* length of what follows the '/' in the strings validate_youtube_url is applied to
MaxRest == 2

Reqs == 1..NumReqs

Racers == 1..NumRacing

(***************************************************************************)
(* Strings.                                                                *)
(***************************************************************************)
Chars(s) == {s[i] : i \in 1..Len(s)}

StartsWith(s, p) == Len(p) <= Len(s) /\ SubSeq(s, 1, Len(p)) = p

EndsWith(s, x) == Len(x) <= Len(s) /\ SubSeq(s, Len(s) - Len(x) + 1, Len(s)) = x

\* s[:n]
Take(s, n) == SubSeq(s, 1, IF Len(s) < n THEN Len(s) ELSE n)

\* s[:-1]
DropLast(s) == SubSeq(s, 1, Len(s) - 1)

\* the characters str.strip() removes (the ones the model's inputs use)
Whitespace == {" ", "\n"}

RECURSIVE lstrip(_)
lstrip(s) == IF s # <<>> /\ Head(s) \in Whitespace THEN lstrip(Tail(s)) ELSE s

RECURSIVE rstrip(_)
rstrip(s) == IF s # <<>> /\ s[Len(s)] \in Whitespace THEN rstrip(DropLast(s)) ELSE s

\* str.strip()
strip(s) == rstrip(lstrip(s))

HTTP == <<"h", "t", "t", "p", ":", "/", "/">>
HTTPS == <<"h", "t", "t", "p", "s", ":", "/", "/">>
WWW == <<"w", "w", "w", ".">>
YOUTUBE_COM == <<"y", "o", "u", "t", "u", "b", "e", ".", "c", "o", "m">>
YOUTU_BE == <<"y", "o", "u", "t", "u", ".", "b", "e">>

\* `.+$` of re.match without flags: one or more characters other than a
\* newline, up to the end of the string or to a newline that ends the string
MatchesRest(s) ==
    LET body == IF s # <<>> /\ s[Len(s)] = "\n" THEN DropLast(s) ELSE s
    IN  body # <<>> /\ "\n" \notin Chars(body)

\* the pattern without its '^', looked for from any place of the string
search_youtube_url(url) ==
    \E i \in 1..(Len(url) + 1) :
      \E scheme \in {<<>>, HTTP, HTTPS} :
        \E www \in {<<>>, WWW} :
          \E host \in {YOUTUBE_COM, YOUTU_BE} :
            LET prefix == scheme \o www \o host \o <<"/">>
                tail == SubSeq(url, i, Len(url))
            IN  /\ StartsWith(tail, prefix)
                /\ MatchesRest(SubSeq(tail, Len(prefix) + 1, Len(tail)))

\* re.match(r'^(https?://)?(www\.)?(youtube\.com|youtu\.be)/.+$', url) is not None
validate_youtube_url(url) ==
    \E scheme \in {<<>>, HTTP, HTTPS} :
      \E www \in {<<>>, WWW} :
        \E host \in {YOUTUBE_COM, YOUTU_BE} :
          LET prefix == scheme \o www \o host \o <<"/">>
          IN  /\ StartsWith(url, prefix)
              /\ MatchesRest(SubSeq(url, Len(prefix) + 1, Len(url)))

\* the characters re.sub(r'[<>:"/\\|?*]', '', filename) removes
InvalidChars == {"<", ">", ":", "\"", "/", "\\", "|", "?", "*"}

IsValidChar(c) == c \notin InvalidChars

\* filename[:200]
MaxFilenameLen == 200

\* lines 48 and 50 in the other order: the name is cut, then cleaned
truncate_then_remove(filename) ==
    SelectSeq(Take(filename, MaxFilenameLen), IsValidChar)

sanitize_filename(filename) ==
    Take(SelectSeq(filename, IsValidChar), MaxFilenameLen)

(***************************************************************************)
(* The requests the model sends and what the collaborator can answer.      *)
(***************************************************************************)
MP4 == <<"m", "p", "4">>
WEBM == <<"w", "e", "b", "m">>
MP3 == <<"m", "p", "3">>
PART == <<".", "p", "a", "r", "t">>

\* url values a JSON body can carry
UrlShort == YOUTU_BE \o <<"/", "a">>
UrlQuery == YOUTU_BE \o <<"/", "a", "?">>
UrlPadded == <<" ">> \o HTTPS \o WWW \o YOUTUBE_COM \o <<"/", "b", "\n">>
UrlNoPath == HTTP \o YOUTU_BE \o <<"/">>
UrlOther == <<"v", "i", "m", "e", "o", ".", "c", "o", "m", "/", "1">>
UrlBlank == <<" ", "\n">>

ValidUrls == {UrlShort, UrlQuery, UrlPadded}
UrlStrings == ValidUrls \cup {UrlNoPath, UrlOther, UrlBlank, <<>>}

\* request.get_json(): no usable body (get_json raises or returns None), or
\* an object whose "url" is absent, not a string, or a string
Bodies(endpoint, formats) ==
    {[endpoint |-> endpoint, json |-> "none", url |-> <<>>, format |-> f] : f \in formats}
    \cup {[endpoint |-> endpoint, json |-> k, url |-> <<>>, format |-> f] :
            k \in {"url_missing", "url_not_str"}, f \in formats}
    \cup {[endpoint |-> endpoint, json |-> "ok", url |-> u, format |-> f] :
            u \in UrlStrings, f \in formats}

\* the title of the video a URL names, as the collaborator reports it
VideoTitle(url) ==
    IF url = UrlShort THEN <<"A">>
    ELSE IF url = UrlQuery THEN <<"A", "?">>
    ELSE <<"A", "B">>

\* info.get('ext') of a video download: a container, or absent
InfoExts == {MP4, WEBM, <<>>}

\* what the collaborator leaves in the directory when it returns: the
\* predicted name, the name with a trailing underscore (lines 274-286), or
\* no file at all (lines 267-272)
Written == {"exact", "underscore", "nothing"}

\* the name the collaborator writes for a title and an extension
OutputName(title, dotext, how) ==
    sanitize_filename(title) \o dotext \o
        (IF how = "underscore" THEN <<"_">> ELSE IF how = "part" THEN PART ELSE <<>>)

(***************************************************************************)
(* State.                                                                  *)
(***************************************************************************)
VARIABLES
    pc,         \* where each download request stands
    attempt,    \* 0 before the try body, 1 in it, 2 in the first except clause
    locals,     \* url, download_format, base_name, ext, filename, possible_files,
                \* and output: the file the collaborator's last call wrote
    resp,       \* the response each request got
    downloads,  \* DOWNLOAD_FOLDER: the files, each with the request that wrote it
    on_close,   \* whether cleanup is registered on the response
    calls,      \* number of ydl.extract_info calls made for the request
    cleanups,   \* number of times cleanup ran for the request
    fsops,      \* number of os.rename and os.remove calls that took effect
    raised,     \* the first exception raised in the try body, "" when none
    request,    \* the endpoint and JSON body of each request
    catalog,    \* info['formats'] as the collaborator answers a metadata request
    call        \* a call of one of the two helper functions: argument and result

vars == <<pc, attempt, locals, resp, downloads, on_close, calls, cleanups, fsops, raised,
          request, catalog, call>>

NoResp ==
    [kind |-> "none", status |-> 0, error |-> <<>>, file |-> <<>>, consumed |-> FALSE,
     formats |-> <<>>]

\* jsonify({'error': ...}), status
JsonError(status, error) ==
    [kind |-> "json", status |-> status, error |-> error, file |-> <<>>, consumed |-> FALSE,
     formats |-> <<>>]

\* send_file(filepath, as_attachment=True, download_name=filename)
send_file(filename) ==
    [kind |-> "file", status |-> 200, error |-> <<>>, file |-> filename, consumed |-> FALSE,
     formats |-> <<>>]

\* an exception that leaves download_video: the framework answers, not the handler
Unhandled(e) ==
    [kind |-> "unhandled", status |-> 500, error |-> <<e>>, file |-> <<>>, consumed |-> FALSE,
     formats |-> <<>>]

\* jsonify(video_info), 200
JsonInfo(formats) ==
    [kind |-> "info", status |-> 200, error |-> <<>>, file |-> <<>>, consumed |-> FALSE,
     formats |-> formats]

\* the helper fn was not called yet on the string arg; out and ok are the
\* results of sanitize_filename and of validate_youtube_url
NoCall(arg) == [fn |-> "", arg |-> arg, out |-> <<>>, ok |-> FALSE]

NoRequest == [endpoint |-> "", json |-> "", url |-> <<>>, format |-> ""]

NoLocals == [url |-> <<>>, download_format |-> "", base_name |-> <<>>, ext |-> <<>>,
             filename |-> <<>>, possible_files |-> {}, output |-> <<>>]

\* the requests of the behaviour
Requests == DOMAIN pc

\* line 20: Path(DOWNLOAD_FOLDER).mkdir(exist_ok=True) keeps what an earlier
\* run left in the folder; the contents the model starts from
InitialFolders ==
    {{},
     {<<"A", "B", ".", "m", "p", "4">>},
     {<<"A", "B", ".", "m", "p", "4">>, <<"A", "C", ".", "m", "p", "4">>},
     {<<"A", ".", "m", "p", "4", ".", "p", "a", "r", "t">>, <<"A", "B", ".", "m", "p", "3">>}}

\* the state after start-up, with requests rs to come, the folder as found
\* and fs the format list of the video
Start(rs, folder, fs) ==
    /\ pc = [r \in rs |-> "idle"]
    /\ attempt = [r \in rs |-> 0]
    /\ locals = [r \in rs |-> NoLocals]
    /\ resp = [r \in rs |-> NoResp]
    /\ downloads = {[name |-> n, by |-> 0] : n \in folder}
    /\ on_close = [r \in rs |-> FALSE]
    /\ calls = [r \in rs |-> 0]
    /\ cleanups = [r \in rs |-> 0]
    /\ fsops = [r \in rs |-> 0]
    /\ raised = [r \in rs |-> ""]
    /\ request = [r \in rs |-> NoRequest]
    /\ catalog = fs
    /\ call = NoCall(<<>>)

(***************************************************************************)
(* DOWNLOAD_FOLDER.                                                        *)
(***************************************************************************)
\* os.listdir(DOWNLOAD_FOLDER)
listdir == {f.name : f \in downloads}

\* os.path.exists(os.path.join(DOWNLOAD_FOLDER, name))
exists(name) == name \in listdir

\* the directory without name
WithoutFile(dir, name) == {f \in dir : f.name # name}

\* the directory with name written (or overwritten) by request r
WithFile(dir, name, r) == WithoutFile(dir, name) \cup {[name |-> name, by |-> r]}

\* the request whose collaborator wrote name, 0 when no such file
WriterOf(name) ==
    IF exists(name) THEN (CHOOSE f \in downloads : f.name = name).by ELSE 0

\* os.rename(src, dst): dst is replaced when it exists
rename(dir, src, dst) ==
    WithFile(WithoutFile(dir, src), dst, (CHOOSE f \in dir : f.name = src).by)

(***************************************************************************)
(* download_video: exception dispatch.                                     *)
(***************************************************************************)
\* the except clauses of the try statement of download_video, in order
ExceptClauses == <<"Exception", "Exception">>

\* the clause that handles an Exception: the first one that matches
HandlingClause ==
    CHOOSE i \in DOMAIN ExceptClauses :
        /\ ExceptClauses[i] = "Exception"
        /\ \A j \in 1..(i - 1) : ExceptClauses[j] # "Exception"

\* Where exception e raised at attempt a leaves the request. bound: whether
\* url, download_format and format_id were assigned before e was raised.
\* An exception raised inside an except clause leaves the function. The first
\* clause (lines 306-407) reads format_id, validates url again and goes on to
\* configure and call the collaborator; the second (lines 409-410) answers 500.
Caught(a, url, e, bound) ==
    IF a = 2 THEN [pc |-> "done", attempt |-> 2, resp |-> Unhandled(e)]
    ELSE IF HandlingClause = 1 THEN
        IF ~bound THEN
            [pc |-> "done", attempt |-> 2, resp |-> Unhandled("UnboundLocalError")]
        ELSE IF url = <<>> THEN
            [pc |-> "done", attempt |-> 2, resp |-> JsonError(400, <<"URL is required">>)]
        ELSE IF ~validate_youtube_url(url) THEN
            [pc |-> "done", attempt |-> 2, resp |-> JsonError(400, <<"Invalid YouTube URL">>)]
        ELSE [pc |-> "extract", attempt |-> 2, resp |-> NoResp]
    ELSE [pc |-> "done", attempt |-> 1, resp |-> JsonError(500, <<"Download failed: ", e>>)]

\* the request r after exception e
Raise(r, e, bound) ==
    LET c == Caught(attempt[r], locals[r].url, e, bound)
    IN  /\ pc' = [pc EXCEPT ![r] = c.pc]
        /\ attempt' = [attempt EXCEPT ![r] = c.attempt]
        /\ resp' = [resp EXCEPT ![r] = c.resp]
        /\ raised' = [raised EXCEPT ![r] = IF @ = "" THEN e ELSE @]

\* data.get('url', '').strip()
UrlOf(body) == strip(IF body.json = "url_missing" THEN <<>> ELSE body.url)

(***************************************************************************)
(* get_video_info.                                                         *)
(***************************************************************************)
\* Python's None where a number is expected
None == -1

\* bool(x) of a number or None
Truthy(x) == x # None /\ x # 0

\* x or y
Or(x, y) == IF Truthy(x) THEN x ELSE y

\* An entry of info['formats'].  url "" stands for a missing or empty url;
\* ext, vcodec and acodec "absent" for a missing key; filesize,
\* filesize_approx and height None for a missing key or a None value.
GoodVideo ==
    [url |-> "u", ext |-> "mp4", filesize |-> 1000000, filesize_approx |-> None,
     vcodec |-> "vp9", acodec |-> "aac", height |-> 720]

GoodAudio ==
    [url |-> "u", ext |-> "webm", filesize |-> None, filesize_approx |-> 131072,
     vcodec |-> "none", acodec |-> "aac", height |-> None]

\* the entries the model feeds: the two above and each with one field changed
RawEntries ==
    {GoodVideo, GoodAudio}
    \cup {[GoodVideo EXCEPT !.url = ""], [GoodAudio EXCEPT !.url = ""]}
    \cup {[GoodVideo EXCEPT !.ext = e] : e \in {"absent", "webm", "m4a"}}
    \cup {[GoodAudio EXCEPT !.ext = e] : e \in {"absent", "m4a"}}
    \cup {[GoodVideo EXCEPT !.filesize = n] : n \in {None, 0}}
    \cup {[GoodAudio EXCEPT !.filesize_approx = n] : n \in {None, 0}}
    \cup {[GoodVideo EXCEPT !.acodec = a] : a \in {"none", "absent"}}
    \cup {[GoodVideo EXCEPT !.vcodec = v] : v \in {"none", "absent"}}
    \cup {[GoodVideo EXCEPT !.height = h] : h \in {None, 0, 100, 143, 144}}
    \cup {[GoodAudio EXCEPT !.acodec = a] : a \in {"none", "absent"}}
    \cup {[GoodAudio EXCEPT !.vcodec = "absent"], [GoodAudio EXCEPT !.height = 360]}

\* a list of three entries that carry no url: a 720p video with audio, an
\* audio-only entry and a video of height 100 without audio
ExampleFormats ==
    <<[url |-> "", ext |-> "mp4", filesize |-> 1000000, filesize_approx |-> None,
       vcodec |-> "vp9", acodec |-> "aac", height |-> 720],
      [url |-> "", ext |-> "mp4", filesize |-> 50000, filesize_approx |-> None,
       vcodec |-> "none", acodec |-> "aac", height |-> None],
      [url |-> "", ext |-> "mp4", filesize |-> 10000, filesize_approx |-> None,
       vcodec |-> "h264", acodec |-> "none", height |-> 100]>>

\* the list fs with a media url on every entry
WithUrl(fs) == [i \in DOMAIN fs |-> [fs[i] EXCEPT !.url = "u"]]

\* the lists of at most n entries; format_id is the entry's place in the list
RECURSIVE RawLists(_)
RawLists(n) ==
    IF n = 0 THEN {<<>>}
    ELSE LET shorter == RawLists(n - 1)
         IN  shorter \cup {Append(l, e) : l \in {x \in shorter : Len(x) = n - 1}, e \in RawEntries}

\* f.get(key, default) of a string field
Get(value, default) == IF value = "absent" THEN default ELSE value

\* str(n) for n >= 0
Digit(d) == <<"0", "1", "2", "3", "4", "5", "6", "7", "8", "9">>[d + 1]

RECURSIVE str(_)
str(n) == IF n < 10 THEN <<Digit(n)>> ELSE Append(str(n \div 10), Digit(n % 10))

\* 1024 * 1024
MB == 1048576

\* round(filesize / (1024 * 1024), 2), in hundredths: to nearest, ties to even
filesize_mb(filesize) ==
    LET q == (100 * filesize) \div MB
        rem == (100 * filesize) % MB
    IN  IF 2 * rem < MB THEN q
        ELSE IF 2 * rem > MB THEN q + 1
        ELSE IF q % 2 = 0 THEN q ELSE q + 1

\* lines 121-126 only: the url test of line 119 left out
KeptWithoutUrl(f) ==
    /\ Get(f.ext, "mp4") \in {"mp4", "webm"}
    /\ Truthy(Or(f.filesize, f.filesize_approx))

\* lines 119-126: the entries the loop does not skip
Kept(f) ==
    /\ f.url # ""
    /\ Get(f.ext, "mp4") \in {"mp4", "webm"}
    /\ Truthy(Or(f.filesize, f.filesize_approx))

\* line 132 without the lower bound on the height
IsVideoAnyHeight(f) == Get(f.vcodec, "none") # "none" /\ Truthy(f.height)

\* line 132
IsVideo(f) == Get(f.vcodec, "none") # "none" /\ Truthy(f.height) /\ f.height >= 144

\* line 145
IsAudioOnly(f) == Get(f.vcodec, "none") = "none" /\ Get(f.acodec, "none") # "none"

\* lines 133-154: the descriptor appended for entry f, whose format_id is id
Descriptor(f, id) ==
    LET filesize == Or(f.filesize, f.filesize_approx)
    IN  IF IsVideo(f)
        THEN [format_id |-> id, quality |-> str(f.height) \o <<"p">>,
              ext |-> Get(f.ext, "mp4"), filesize |-> filesize,
              filesize_mb |-> filesize_mb(filesize),
              has_audio |-> Get(f.acodec, "none") # "none", height |-> f.height]
        ELSE [format_id |-> id, quality |-> <<"a", "u", "d", "i", "o">>,
              ext |-> Get(f.ext, "mp4"), filesize |-> filesize,
              filesize_mb |-> filesize_mb(filesize),
              has_audio |-> TRUE, height |-> None]

\* lines 116-154: the loop over info.get('formats', []), from entry i on
RECURSIVE Collect(_, _)
Collect(fs, i) ==
    IF i > Len(fs) THEN <<>>
    ELSE IF Kept(fs[i]) /\ (IsVideo(fs[i]) \/ IsAudioOnly(fs[i]))
         THEN <<Descriptor(fs[i], i)>> \o Collect(fs, i + 1)
         ELSE Collect(fs, i + 1)

\* line 156: the sort key x['height'] or 0
SortKey(x) == Or(x.height, 0)

\* d put into the list l, sorted by descending key, after the entries of
\* equal key (list.sort is stable, with reverse=True too)
RECURSIVE Insert(_, _)
Insert(l, d) ==
    IF l = <<>> THEN <<d>>
    ELSE IF SortKey(Head(l)) >= SortKey(d) THEN <<Head(l)>> \o Insert(Tail(l), d)
    ELSE <<d>> \o l

\* line 156 left out: the list in the order the loop appended
unsorted(l) == l

\* formats.sort(key=lambda x: (x['height'] or 0), reverse=True)
RECURSIVE sort(_)
sort(l) == IF l = <<>> THEN <<>> ELSE Insert(sort(DropLast(l)), l[Len(l)])

\* lines 116-156
Formats(fs) == sort(Collect(fs, 1))

\* lines 83-87: the response of a rejected url, NoResp for an accepted one
ValidateInfo(url) ==
    IF url = <<>> THEN JsonError(400, <<"URL is required">>)
    ELSE IF ~validate_youtube_url(url) THEN JsonError(400, <<"Invalid YouTube URL">>)
    ELSE NoResp

\* lines 174-175 left out: the exception leaves get_video_info
InfoEscapes(e) == Unhandled(e)

\* lines 174-175
InfoFailed(e) == JsonError(500, <<"Failed to fetch video info: ", e>>)

\* lines 77-175: the whole handler; it touches no shared state
GetVideoInfo(r) ==
    /\ pc[r] = "idle"
    /\ \E body \in Bodies("video-info", {""}) :
         /\ request' = [request EXCEPT ![r] = body]
         /\ IF body.json \in {"none", "url_not_str"}
            THEN \* data.get or .strip() raises
                 /\ resp' = [resp EXCEPT ![r] = InfoFailed("AttributeError")]
                 /\ raised' = [raised EXCEPT ![r] = "AttributeError"]
                 /\ UNCHANGED <<calls, locals>>
            ELSE LET url == UrlOf(body)
                     answer == ValidateInfo(url)
                 IN  /\ locals' = [locals EXCEPT ![r].url = url]
                     /\ IF answer # NoResp
                        THEN /\ resp' = [resp EXCEPT ![r] = answer]
                             /\ UNCHANGED <<calls, raised>>
                        ELSE /\ calls' = [calls EXCEPT ![r] = @ + 1]
                             /\ \/ \* ydl.extract_info(url, download=False) raises
                                   /\ resp' = [resp EXCEPT ![r] = InfoFailed("DownloadError")]
                                   /\ raised' = [raised EXCEPT ![r] = "DownloadError"]
                                \/ \* it returns None (info.get raises, line 106), or
                                   \* an entry whose height is not a number (line 132)
                                   \E e \in {"AttributeError", "TypeError"} :
                                       /\ resp' = [resp EXCEPT ![r] = InfoFailed(e)]
                                       /\ raised' = [raised EXCEPT ![r] = e]
                                \/ \* it returns info
                                   /\ resp' = [resp EXCEPT ![r] = JsonInfo(Formats(catalog))]
                                   /\ UNCHANGED raised
    /\ pc' = [pc EXCEPT ![r] = "done"]
    /\ attempt' = [attempt EXCEPT ![r] = 1]
    /\ UNCHANGED <<downloads, on_close, cleanups, fsops, catalog, call>>

(***************************************************************************)
(* download_video, step by step.  A step ends where the handler next       *)
(* touches the shared directory, so that concurrent requests interleave    *)
(* exactly at those points.                                                *)
(***************************************************************************)
\* the two checks in the other order
ValidateSwapped(url) ==
    IF ~validate_youtube_url(url) THEN JsonError(400, <<"Invalid YouTube URL">>)
    ELSE IF url = <<>> THEN JsonError(400, <<"URL is required">>)
    ELSE NoResp

\* lines 207-212: the response of a rejected url, NoResp for an accepted one
Validate(url) ==
    IF url = <<>> THEN JsonError(400, <<"URL is required">>)
    ELSE IF ~validate_youtube_url(url) THEN JsonError(400, <<"Invalid YouTube URL">>)
    ELSE NoResp

\* lines 193-245: read the body, validate the url, configure the collaborator
Receive(r) ==
    /\ pc[r] = "idle"
    /\ \E body \in Bodies("download", {"video", "audio"}) :
         /\ request' = [request EXCEPT ![r] = body]
         /\ IF body.json \in {"none", "url_not_str"}
            THEN \* data.get or .strip() raises before url and format_id are bound
                 /\ Raise(r, "AttributeError", FALSE)
                 /\ UNCHANGED locals
            ELSE LET url == UrlOf(body)
                     answer == Validate(url)
                 IN  /\ locals' = [locals EXCEPT ![r].url = url,
                                                 ![r].download_format = body.format]
                     /\ resp' = [resp EXCEPT ![r] = answer]
                     /\ pc' = [pc EXCEPT ![r] = IF answer = NoResp THEN "extract" ELSE "done"]
                     /\ attempt' = [attempt EXCEPT ![r] = 1]
                     /\ UNCHANGED raised
    /\ UNCHANGED <<downloads, on_close, calls, cleanups, fsops, catalog, call>>

\* lines 253-257: ext
DotExt(download_format, info_ext) ==
    IF download_format = "audio" THEN <<".">> \o MP3
    ELSE <<".">> \o (IF info_ext # <<>> THEN info_ext ELSE MP4)

\* lines 248-258 (and 351-361): the one blocking call into the collaborator,
\* then ext and base_name
Extract(r) ==
    /\ pc[r] = "extract"
    /\ calls' = [calls EXCEPT ![r] = @ + 1]
    /\ LET title == VideoTitle(locals[r].url)
           fmt == locals[r].download_format
       IN  \/ \* the collaborator raises, with or without a partial file left
              /\ \E partial \in BOOLEAN :
                   downloads' =
                       IF partial
                       THEN WithFile(downloads, OutputName(title, DotExt(fmt, <<>>), "part"), r)
                       ELSE downloads
              /\ Raise(r, "DownloadError", TRUE)
              /\ locals' = [locals EXCEPT ![r].output = <<>>]
           \/ \* the collaborator returns info
              \E info_ext \in (IF fmt = "audio" THEN {MP3} ELSE InfoExts), how \in Written :
                LET ext == DotExt(fmt, info_ext)
                IN  /\ downloads' =
                          IF how = "nothing" THEN downloads
                          ELSE WithFile(downloads, OutputName(title, ext, how), r)
                    /\ locals' = [locals EXCEPT
                                     ![r].ext = ext,
                                     ![r].base_name = sanitize_filename(title),
                                     ![r].output = IF how = "nothing" THEN <<>>
                                                   ELSE OutputName(title, ext, how)]
                    /\ pc' = [pc EXCEPT ![r] = "scan"]
                    /\ UNCHANGED <<attempt, resp, raised>>
    /\ UNCHANGED <<on_close, cleanups, fsops, request, catalog, call>>

\* line 262: the filter of the directory scan
IsPossibleFile(f, base_name, ext) ==
    /\ StartsWith(f, base_name)
    /\ EndsWith(f, ext)
    /\ ~EndsWith(f, ext \o <<"_">>)
    /\ ~EndsWith(f, PART)

\* max in place of min
Longest(files) == {f \in files : \A g \in files : Len(f) >= Len(g)}

\* line 265: min(possible_files, key=len); os.listdir gives no order, so any
\* of the shortest names can come first
Shortest(files) == {f \in files : \A g \in files : Len(f) <= Len(g)}

\* lines 261-270: scan the directory and pick the file
Scan(r) ==
    /\ pc[r] = "scan"
    /\ LET possible_files ==
                 {f \in listdir : IsPossibleFile(f, locals[r].base_name, locals[r].ext)}
       IN  IF possible_files # {}
           THEN /\ \E f \in Shortest(possible_files) :
                     locals' = [locals EXCEPT ![r].filename = f,
                                              ![r].possible_files = possible_files]
                /\ pc' = [pc EXCEPT ![r] = "send"]
           ELSE /\ locals' = [locals EXCEPT
                                 ![r].filename = locals[r].base_name \o locals[r].ext,
                                 ![r].possible_files = {}]
                /\ pc' = [pc EXCEPT ![r] = "fallback"]
    /\ UNCHANGED <<attempt, resp, raised, downloads, on_close, calls, cleanups, fsops,
                   request, catalog, call>>

\* the predicted path taken without the check of line 271
FallbackUnchecked(r) ==
    /\ pc[r] = "fallback"
    /\ pc' = [pc EXCEPT ![r] = "send"]
    /\ UNCHANGED <<attempt, locals, resp, downloads, on_close, calls, cleanups, fsops, raised,
                   request, catalog, call>>

\* lines 271-272 with a sweep added: the files the request's collaborator
\* left are removed before 'file not found' is answered
FallbackSweeping(r) ==
    /\ pc[r] = "fallback"
    /\ IF exists(locals[r].filename)
       THEN /\ pc' = [pc EXCEPT ![r] = "send"]
            /\ UNCHANGED <<resp, downloads>>
       ELSE /\ pc' = [pc EXCEPT ![r] = "done"]
            /\ resp' = [resp EXCEPT ![r] =
                           JsonError(500, <<"Download completed but file not found">>)]
            /\ downloads' = {f \in downloads : f.by # r}
    /\ UNCHANGED <<attempt, locals, on_close, calls, cleanups, fsops, raised,
                   request, catalog, call>>

\* lines 271-272: the predicted path, when the scan found nothing
Fallback(r) ==
    /\ pc[r] = "fallback"
    /\ IF exists(locals[r].filename)
       THEN /\ pc' = [pc EXCEPT ![r] = "send"]
            /\ UNCHANGED resp
       ELSE /\ pc' = [pc EXCEPT ![r] = "done"]
            /\ resp' = [resp EXCEPT ![r] =
                           JsonError(500, <<"Download completed but file not found">>)]
    /\ UNCHANGED <<attempt, locals, downloads, on_close, calls, cleanups, fsops, raised,
                   request, catalog, call>>

\* lines 275 and 281: the names the handler renames
NeedsRename(filename) ==
    EndsWith(filename, <<".">> \o MP4 \o <<"_">>) \/ EndsWith(filename, <<".">> \o WEBM \o <<"_">>)

\* lines 274-304: drop a trailing underscore, open the file for the response,
\* register cleanup
Send(r) ==
    /\ pc[r] = "send"
    /\ LET filename == locals[r].filename
           new_filename == IF NeedsRename(filename) THEN DropLast(filename) ELSE filename
       IN  IF ~exists(filename)
           THEN \* os.rename or send_file raises
                /\ Raise(r, "FileNotFoundError", TRUE)
                /\ UNCHANGED <<locals, downloads, on_close, fsops>>
           ELSE /\ downloads' = IF NeedsRename(filename)
                                THEN rename(downloads, filename, new_filename)
                                ELSE downloads
                /\ fsops' = [fsops EXCEPT ![r] = IF NeedsRename(filename) THEN @ + 1 ELSE @]
                /\ locals' = [locals EXCEPT ![r].filename = new_filename]
                /\ resp' = [resp EXCEPT ![r] = send_file(new_filename)]
                /\ on_close' = [on_close EXCEPT ![r] = TRUE]
                /\ pc' = [pc EXCEPT ![r] = "streaming"]
                /\ UNCHANGED <<attempt, raised>>
    /\ UNCHANGED <<calls, cleanups, request, catalog, call>>

\* a cleanup that empties the folder
cleanupFolder(dir, filepath, removed) == IF removed THEN {} ELSE dir

\* lines 297-302: the directory after cleanup; removed is whether os.remove
\* succeeds (its exception is swallowed)
cleanup(dir, filepath, removed) ==
    IF filepath \in {f.name : f \in dir} /\ removed THEN WithoutFile(dir, filepath) ELSE dir

\* lines 296-302: the response is closed, whether or not the client read all
\* of it, and its on-close callbacks run
Close(r) ==
    /\ pc[r] = "streaming"
    /\ on_close[r]
    /\ \E consumed \in BOOLEAN, removed \in BOOLEAN :
         /\ resp' = [resp EXCEPT ![r].consumed = consumed]
         /\ downloads' = cleanup(downloads, locals[r].filename, removed)
         /\ fsops' = [fsops EXCEPT ![r] = IF downloads' # downloads THEN @ + 1 ELSE @]
    /\ cleanups' = [cleanups EXCEPT ![r] = @ + 1]
    /\ pc' = [pc EXCEPT ![r] = "done"]
    /\ UNCHANGED <<attempt, locals, on_close, calls, raised, request, catalog, call>>

(***************************************************************************)
(* The two helper functions, applied to strings of their own.              *)
(***************************************************************************)
\* the strings of at most n characters of the set A
RECURSIVE Strings(_, _)
Strings(A, n) ==
    IF n = 0 THEN {<<>>}
    ELSE LET shorter == Strings(A, n - 1)
         IN  shorter \cup {Append(s, c) : s \in {x \in shorter : Len(x) = n - 1}, c \in A}

\* the characters of the file names: the ones line 48 removes and two it keeps
FilenameAlphabet == InvalidChars \cup {"a", "."}

\* n characters that line 48 keeps
Pad(n) == [i \in 1..n |-> "a"]

\* lengths around the limit of line 50
PadLengths == {MaxFilenameLen - 2, MaxFilenameLen - 1, MaxFilenameLen, MaxFilenameLen + 1}

\* names about as long as the limit, with a first and a last character that
\* line 48 removes or keeps
LongFilenames ==
    {p \o Pad(n) \o q : p \in Strings(FilenameAlphabet, 1), q \in Strings(FilenameAlphabet, 1),
                        n \in PadLengths}

\* strings made of the parts the pattern of line 33 names, and of parts it
\* does not accept
UrlInputs ==
    {lead \o scheme \o www \o host \o slash \o rest :
        lead \in {<<>>, <<" ">>, <<"x">>},
        scheme \in {<<>>, HTTP, HTTPS, <<"f", "t", "p", ":", "/", "/">>},
        www \in {<<>>, WWW},
        host \in {<<>>, YOUTUBE_COM, YOUTU_BE,
                  <<"y", "o", "u", "t", "u", "b", "e", "X", "c", "o", "m">>,
                  <<"Y", "o", "u", "t", "u", ".", "b", "e">>,
                  <<"v", "i", "m", "e", "o", ".", "c", "o", "m">>},
        slash \in {<<>>, <<"/">>},
        rest \in Strings({"a", "\n"}, MaxRest)}

\* the strings the helper functions are applied to
HelperInputs == Strings(FilenameAlphabet, MaxShort) \cup LongFilenames \cup UrlInputs

\* lines 37-50
CallSanitize ==
    /\ call.fn = ""
    /\ call' = [call EXCEPT !.fn = "sanitize_filename", !.out = sanitize_filename(call.arg)]
    /\ UNCHANGED <<pc, attempt, locals, resp, downloads, on_close, calls, cleanups, fsops,
                   raised, request, catalog>>

\* lines 23-34
CallValidate ==
    /\ call.fn = ""
    /\ call' = [call EXCEPT !.fn = "validate_youtube_url",
                            !.ok = validate_youtube_url(call.arg)]
    /\ UNCHANGED <<pc, attempt, locals, resp, downloads, on_close, calls, cleanups, fsops,
                   raised, request, catalog>>

NextInfo == \E r \in Requests : GetVideoInfo(r)

Next ==
    \/ \E r \in Requests : GetVideoInfo(r)
    \/ \E r \in Requests : Receive(r)
    \/ \E r \in Requests : Extract(r)
    \/ \E r \in Requests : Scan(r)
    \/ \E r \in Requests : Fallback(r)
    \/ \E r \in Requests : Send(r)
    \/ \E r \in Requests : Close(r)

\* the format list of the metadata requests of Spec and SpecRace
SampleCatalog == <<GoodVideo, GoodAudio, [GoodVideo EXCEPT !.height = 100]>>

\* requests to both handlers, on a folder with leftovers
Init == \E folder \in InitialFolders : Start(Reqs, folder, SampleCatalog)

Spec == Init /\ [][Next]_vars

\* concurrent requests on a folder that starts empty
InitRace == Start(Racers, {}, SampleCatalog)

SpecRace == InitRace /\ [][Next]_vars

\* one metadata request, for every format list of at most MaxFormats entries
InitInfo ==
    \E fs \in RawLists(MaxFormats) \cup {ExampleFormats, WithUrl(ExampleFormats)} :
        Start({1}, {}, fs)

SpecInfo == InitInfo /\ [][NextInfo]_vars

\* a helper function is applied to a string, no request being served
InitHelpers ==
    /\ pc = <<>> /\ attempt = <<>> /\ locals = <<>> /\ resp = <<>>
    /\ on_close = <<>> /\ calls = <<>> /\ cleanups = <<>> /\ fsops = <<>>
    /\ raised = <<>> /\ request = <<>>
    /\ downloads = {}
    /\ catalog = <<>>
    /\ \E s \in HelperInputs : call = NoCall(s)

NextHelpers == CallSanitize \/ CallValidate

SpecHelpers == InitHelpers /\ [][NextHelpers]_vars

(***************************************************************************)
(* The claims.                                                             *)
(***************************************************************************)
IsDownload(r) == request[r].endpoint = "download"

IsInfo(r) == request[r].endpoint = "video-info"

\* C1: in download_video every exception raised in the try body is caught
\* and answered with HTTP 500 and a JSON error that embeds the exception
\* text; no exception leaves the handler.
C1_ExceptionsAnswered500 ==
    \A r \in Requests :
        IsDownload(r) =>
            /\ resp[r].kind # "unhandled"
            /\ (pc[r] = "done" /\ raised[r] # "" =>
                    resp[r] = JsonError(500, <<"Download failed: ", raised[r]>>))

\* C2: the collaborator is called at most once for a download request.
C2_AtMostOneCall ==
    \A r \in Requests : IsDownload(r) => calls[r] <= 1

\* what a request that failed validation must look like: the given 400
\* answer, no collaborator call, no file of the folder written, renamed or
\* deleted by it
Rejected(r, message) ==
    /\ pc[r] = "done"
    /\ resp[r] = JsonError(400, <<message>>)
    /\ calls[r] = 0
    /\ fsops[r] = 0
    /\ \A f \in downloads : f.by # r

\* C3: in both handlers a request whose trimmed url is empty or missing gets
\* 400 'URL is required', one whose trimmed url is not empty but fails
\* validate_youtube_url gets 400 'Invalid YouTube URL', and in both cases the
\* collaborator is not called and the request touches no file.
C3_ValidationFirst ==
    \A r \in Requests :
        request[r].json \in {"ok", "url_missing"} =>
            LET url == strip(IF request[r].json = "url_missing" THEN <<>> ELSE request[r].url)
            IN  /\ url = <<>> => Rejected(r, "URL is required")
                /\ url # <<>> /\ ~validate_youtube_url(url) => Rejected(r, "Invalid YouTube URL")

\* a request whose url is not empty but has no path after the host was
\* answered 400 'Invalid YouTube URL'
C3_Witness ==
    \E r \in Requests :
        /\ pc[r] = "done"
        /\ request[r].json = "ok"
        /\ request[r].url = UrlNoPath
        /\ resp[r] = JsonError(400, <<"Invalid YouTube URL">>)

\* the file response of a download request
Served(r) == IsDownload(r) /\ resp[r].kind = "file"

\* request r's response is closed in this step and its callbacks run
Closes(r) == pc[r] = "streaming" /\ pc'[r] = "done"

\* C4 as claimed: cleanup runs exactly once, only after the response is
\* closed, and once the response is closed the streamed file is absent from
\* the folder.
C4_FileAbsentAfterClose ==
    \A r \in Requests :
        Served(r) =>
            /\ cleanups[r] = (IF pc[r] = "done" THEN 1 ELSE 0)
            /\ (pc[r] = "done" => ~exists(resp[r].file))

\* C4 as amended: for a request that reached the streaming step cleanup is
\* registered, has not run while the response is open and has run exactly
\* once when it is closed, whether or not the client read the whole body;
\* the step that closes the response changes the folder at most by removing
\* the streamed path, and leaves that path absent unless os.remove failed,
\* in which case the folder is as it was.
C4_CleanupOnceOnClose ==
    /\ [](\A r \in Requests :
            /\ Served(r) <=> IsDownload(r) /\ on_close[r]
            /\ Served(r) => /\ pc[r] \in {"streaming", "done"}
                            /\ resp[r].file = locals[r].filename
                            /\ cleanups[r] = (IF pc[r] = "done" THEN 1 ELSE 0)
            /\ ~Served(r) => cleanups[r] = 0)
    /\ [][\A r \in Requests :
            Closes(r) =>
                /\ cleanups'[r] = 1
                /\ downloads' \in {downloads, WithoutFile(downloads, resp[r].file)}
                /\ (~exists(resp[r].file)' \/ downloads' = downloads)]_vars

\* a response the client did not read to the end was closed and its file,
\* which was in the folder, is gone
C4_Witness ==
    \E r \in Requests :
        /\ Served(r)
        /\ pc[r] = "done"
        /\ ~resp[r].consumed
        /\ cleanups[r] = 1
        /\ fsops[r] = 1
        /\ ~exists(resp[r].file)

\* the collaborator's last call for r left sanitize(title) + ext + '_', ext
\* being '.mp4' or '.webm'
LeftUnderscore(r) ==
    /\ locals[r].output = locals[r].base_name \o locals[r].ext \o <<"_">>
    /\ locals[r].ext \in {<<".">> \o MP4, <<".">> \o WEBM}

\* C5: when the collaborator leaves sanitize(title) + '.mp4_' (or '.webm_'),
\* the handler renames that file and serves it with status 200 under
\* sanitize(title) + '.mp4' (or '.webm').
C5_UnderscoreRenamedAndServed ==
    \A r \in Requests :
        IsDownload(r) /\ pc[r] = "done" /\ LeftUnderscore(r) =>
            resp[r] = send_file(locals[r].base_name \o locals[r].ext)

NotFound == JsonError(500, <<"Download completed but file not found">>)

\* C6: when the collaborator returned, the scan matched no file and the
\* predicted path sanitize(title) + ext does not exist, the handler answers
\* 500 'Download completed but file not found'; a request so answered has
\* no cleanup registered and has renamed or deleted no file.
C6_NotFoundTouchesNothing ==
    /\ [](\A r \in Requests :
            IsDownload(r) /\ resp[r] = NotFound =>
                /\ pc[r] = "done"
                /\ ~on_close[r]
                /\ cleanups[r] = 0
                /\ fsops[r] = 0)
    /\ [][\A r \in Requests :
            /\ pc[r] = "fallback"
            /\ pc'[r] # "fallback"
            /\ locals[r].possible_files = {}
            /\ ~exists(locals[r].base_name \o locals[r].ext)
            => /\ resp'[r] = NotFound
               /\ downloads' = downloads]_vars

\* the collaborator returned, left a file the scan does not match, and the
\* request was answered 'file not found'
C6_Witness ==
    \E r \in Requests :
        /\ IsDownload(r)
        /\ resp[r] = NotFound
        /\ calls[r] = 1
        /\ locals[r].output # <<>>
        /\ exists(locals[r].output)

\* C7: the served name starts with sanitize(title), ends with ext and ends
\* neither with ext + '_' nor with '.part'; a name the scan picked is one of
\* the names of the folder that qualify and no qualifying name is shorter.
C7_ServedNameQualifies ==
    \A r \in Requests :
        IsDownload(r) /\ pc[r] \in {"send", "streaming"} =>
            LET f == locals[r].filename
                base == sanitize_filename(VideoTitle(locals[r].url))
                ext == locals[r].ext
                qualifies(g) ==
                    /\ Len(g) >= Len(base) /\ SubSeq(g, 1, Len(base)) = base
                    /\ Len(g) >= Len(ext) /\ SubSeq(g, Len(g) - Len(ext) + 1, Len(g)) = ext
                    /\ g[Len(g)] # "_"
                    /\ ~(Len(g) >= 5 /\ SubSeq(g, Len(g) - 4, Len(g)) = PART)
            IN  /\ qualifies(f)
                /\ \A g \in locals[r].possible_files : qualifies(g) /\ Len(f) <= Len(g)
                /\ (pc[r] = "streaming" => resp[r].file = f)

\* the scan had several qualifying names to choose from and the request
\* streams the one it picked
C7_Witness ==
    \E r \in Requests :
        /\ IsDownload(r)
        /\ pc[r] = "streaming"
        /\ Cardinality(locals[r].possible_files) >= 3
        /\ \E g \in locals[r].possible_files : Len(g) > Len(resp[r].file)

\* request r has selected a file or is streaming it
Holds(r) == IsDownload(r) /\ pc[r] \in {"send", "streaming"}

\* C8: a file is held by at most one in-flight request, so that no cleanup
\* deletes a file another request has selected or is streaming.
C8_ExclusiveOwnership ==
    \A r1, r2 \in Requests :
        r1 # r2 /\ Holds(r1) /\ Holds(r2) => locals[r1].filename # locals[r2].filename

\* C10: a request holds a file another request's collaborator wrote only
\* when the two titles sanitize to the same string.
C10_OnlySameTitlesCollide ==
    \A r1, r2 \in Requests :
        /\ r1 # r2
        /\ Holds(r1)
        /\ WriterOf(locals[r1].filename) = r2
        => sanitize_filename(VideoTitle(locals[r1].url))
               = sanitize_filename(VideoTitle(locals[r2].url))

\* C9: every descriptor of a 200 metadata response has a filesize that is
\* neither null nor zero and an ext of mp4 or webm; it is a video entry
\* (quality '<height>p', height >= 144, has_audio exactly when the source has
\* an audio codec other than 'none') or an audio-only entry (quality
\* 'audio', height null, has_audio true); and its source entry has a media
\* url, an accepted or absent extension and an exact or approximate size.
C9_DescriptorsWellFormed ==
    \A r \in Requests :
        IsInfo(r) /\ resp[r].kind = "info" =>
            \A i \in DOMAIN resp[r].formats :
                LET d == resp[r].formats[i]
                    src == catalog[d.format_id]
                    sized(n) == n # None /\ n # 0
                    video == /\ src.vcodec \notin {"none", "absent"}
                             /\ d.height >= 144
                             /\ d.height = src.height
                             /\ d.quality = str(d.height) \o <<"p">>
                             /\ d.has_audio = (src.acodec \notin {"none", "absent"})
                    audio == /\ src.vcodec \in {"none", "absent"}
                             /\ src.acodec \notin {"none", "absent"}
                             /\ d.quality = <<"a", "u", "d", "i", "o">>
                             /\ d.height = None
                             /\ d.has_audio
                IN  /\ sized(d.filesize)
                    /\ d.filesize \in {src.filesize, src.filesize_approx}
                    /\ d.ext \in {"mp4", "webm"}
                    /\ src.ext \in {d.ext, "absent"}
                    /\ src.url # ""
                    /\ sized(src.filesize) \/ sized(src.filesize_approx)
                    /\ video \/ audio

\* a 200 response whose only descriptor is the audio-only second entry of a
\* list whose first entry, a video of height 143, was dropped
C9_Witness ==
    \E r \in Requests :
        /\ IsInfo(r)
        /\ resp[r].kind = "info"
        /\ Len(resp[r].formats) = 1
        /\ Len(catalog) = 2
        /\ resp[r].formats[1].height = None
        /\ catalog[1].height = 143

\* C11: in every 200 response of get_video_info the formats list is ordered
\* by non-increasing height, a null height counting as 0, so that no
\* audio-only entry (height null) stands before a video entry.
C11_SortedByHeight ==
    \A r \in Requests :
        IsInfo(r) /\ resp[r].kind = "info" /\ resp[r].status = 200 =>
            \A i, j \in DOMAIN resp[r].formats :
                i < j =>
                    LET hi == resp[r].formats[i].height
                        hj == resp[r].formats[j].height
                    IN  /\ (IF hi = None THEN 0 ELSE hi) >= (IF hj = None THEN 0 ELSE hj)
                        /\ ~(hi = None /\ hj # None)

\* a 200 response of two descriptors in which the sort moved the video entry,
\* second in the collaborator's list, before the audio-only entry, first in it
C11_Witness ==
    \E r \in Requests :
        /\ IsInfo(r)
        /\ resp[r].kind = "info"
        /\ Len(resp[r].formats) = 2
        /\ resp[r].formats[1].format_id = 2
        /\ resp[r].formats[1].height = 720
        /\ resp[r].formats[2].format_id = 1
        /\ resp[r].formats[2].height = None

\* the descriptors of the 720p video and of the audio-only entry of
\* ExampleFormats, in that order
ExampleDescriptors(fs) ==
    /\ Len(fs) = 2
    /\ fs[1].format_id = 1 /\ fs[1].height = 720 /\ fs[1].quality = <<"7", "2", "0", "p">>
    /\ fs[1].has_audio /\ fs[1].filesize = 1000000 /\ fs[1].filesize_mb = 95
    /\ fs[2].format_id = 2 /\ fs[2].height = None
    /\ fs[2].quality = <<"a", "u", "d", "i", "o">>
    /\ fs[2].has_audio /\ fs[2].filesize = 50000 /\ fs[2].filesize_mb = 5

\* C12 as claimed: when the collaborator returns exactly the three entries of
\* ExampleFormats, with no other fields, the formats list of get_video_info
\* has exactly two entries, the 720p video first and the audio entry second,
\* the height-100 entry being dropped.
C12_ExampleGivesTwo ==
    \A r \in Requests :
        IsInfo(r) /\ resp[r].kind = "info" /\ catalog = ExampleFormats =>
            ExampleDescriptors(resp[r].formats)

\* C12 as amended: with exactly those three entries, which carry no url, the
\* formats list is empty, line 119 skipping every entry; when each entry
\* carries a media url as well, the list has exactly two entries, the 720p
\* video first and the audio entry second, the height-100 entry being dropped.
C12_ExampleNeedsUrl ==
    \A r \in Requests :
        IsInfo(r) /\ resp[r].kind = "info" =>
            /\ catalog = ExampleFormats => resp[r].formats = <<>>
            /\ catalog = WithUrl(ExampleFormats) => ExampleDescriptors(resp[r].formats)

\* a 200 response to a metadata request for which the collaborator returned
\* the three entries without a url
C12_Witness ==
    \E r \in Requests :
        /\ IsInfo(r)
        /\ pc[r] = "done"
        /\ catalog = ExampleFormats
        /\ resp[r].kind = "info"
        /\ resp[r].status = 200

\* C13: in get_video_info an exception raised while parsing the request,
\* during the extraction or while post-processing the formats is caught and
\* answered with HTTP 500 and a JSON error that embeds the exception's text;
\* no exception leaves the handler and none is followed by a 200 answer.
C13_InfoExceptionsAnswered500 ==
    \A r \in Requests :
        IsInfo(r) =>
            /\ resp[r].kind # "unhandled"
            /\ raised[r] # "" =>
                  /\ pc[r] = "done"
                  /\ resp[r].kind = "json"
                  /\ resp[r].status = 500
                  /\ Len(resp[r].error) = 2
                  /\ resp[r].error[2] = raised[r]

\* a metadata request with a valid url whose collaborator was called and
\* whose post-processing raised TypeError, answered 500
C13_Witness ==
    \E r \in Requests :
        /\ IsInfo(r)
        /\ calls[r] = 1
        /\ raised[r] = "TypeError"
        /\ resp[r].status = 500

\* a download request that ended in an error response
Errored(r) ==
    /\ IsDownload(r)
    /\ pc[r] = "done"
    /\ resp[r].kind \in {"json", "unhandled"}
    /\ resp[r].status \in {400, 500}

\* C14: a download request that ends in an error response (400 or 500) has
\* registered no cleanup and has removed or renamed no file; a name leaves
\* the output directory only in the step that closes a served (200)
\* response, so that what the collaborator of a failed request left, a
\* partial file included, is not removed by that request.
C14_ErrorsDeleteNothing ==
    /\ [](\A r \in Requests :
            Errored(r) => ~on_close[r] /\ cleanups[r] = 0 /\ fsops[r] = 0)
    /\ [][\/ listdir \subseteq listdir'
          \/ \E r \in Requests :
                /\ Closes(r)
                /\ Served(r)
                /\ ~Errored(r)'
                /\ listdir' = listdir \ {resp[r].file}]_vars

\* a download request answered 500 after its collaborator failed, with the
\* partial file that collaborator left still in the folder
C14_Witness ==
    \E r \in Requests :
        /\ Errored(r)
        /\ resp[r].status = 500
        /\ raised[r] = "DownloadError"
        /\ \E f \in downloads : f.by = r /\ EndsWith(f.name, PART)

\* s without the characters < > : " / \ | ? *
Removed(s) ==
    LET keep(c) == c \notin {"<", ">", ":", "\"", "/", "\\", "|", "?", "*"}
    IN  SelectSeq(s, keep)

\* C15: for every string s, sanitize_filename(s) contains none of the
\* characters < > : " / \ | ? *, is at most 200 characters long, and is the
\* first 200 characters of s with those characters removed, the removal
\* being done before the cut.
C15_SanitizeRemovesThenCuts ==
    call.fn = "sanitize_filename" =>
        /\ \A i \in DOMAIN call.out :
              call.out[i] \notin {"<", ">", ":", "\"", "/", "\\", "|", "?", "*"}
        /\ Len(call.out) <= 200
        /\ Len(call.out) = (IF Len(Removed(call.arg)) < 200 THEN Len(Removed(call.arg)) ELSE 200)
        /\ \A i \in DOMAIN call.out : call.out[i] = Removed(call.arg)[i]

\* sanitize_filename was applied to a name of 201 characters that starts
\* with one that is removed: all 200 others are kept, where a cut made
\* before the removal would keep 199
C15_Witness ==
    /\ call.fn = "sanitize_filename"
    /\ Len(call.arg) = 201
    /\ call.arg[1] = "/"
    /\ Len(call.out) = 200

\* an optional 'http://' or 'https://', an optional 'www.', 'youtube.com' or
\* 'youtu.be', and a '/'
AcceptedPrefixes ==
    {scheme \o www \o host \o <<"/">> :
        scheme \in {<<>>, <<"h", "t", "t", "p", ":", "/", "/">>,
                    <<"h", "t", "t", "p", "s", ":", "/", "/">>},
        www \in {<<>>, <<"w", "w", "w", ".">>},
        host \in {<<"y", "o", "u", "t", "u", "b", "e", ".", "c", "o", "m">>,
                  <<"y", "o", "u", "t", "u", ".", "b", "e">>}}

\* what follows prefix p in s
After(s, p) == SubSeq(s, Len(p) + 1, Len(s))

\* C16 as claimed: validate_youtube_url(s) is true exactly when the whole of
\* s is an accepted prefix followed by at least one further character; it
\* is false for the empty string and for a string that does not start with
\* an accepted prefix.
C16_AnyFurtherCharacter ==
    call.fn = "validate_youtube_url" =>
        /\ call.ok <=> \E p \in AcceptedPrefixes :
                          StartsWith(call.arg, p) /\ Len(After(call.arg, p)) >= 1
        /\ call.arg = <<>> => ~call.ok
        /\ (\A p \in AcceptedPrefixes : ~StartsWith(call.arg, p)) => ~call.ok

\* C16 as amended: validate_youtube_url(s) is true exactly when the whole of
\* s is an accepted prefix followed by at least one character other than a
\* line feed, by any more such characters and then by nothing or by one
\* final line feed; it is false for the empty string and for a string that
\* does not start with an accepted prefix.
C16_FurtherCharactersOfOneLine ==
    call.fn = "validate_youtube_url" =>
        /\ call.ok <=> \E p \in AcceptedPrefixes :
                          LET rest == After(call.arg, p)
                          IN  /\ StartsWith(call.arg, p)
                              /\ Len(rest) >= 1
                              /\ rest[1] # "\n"
                              /\ \A i \in 1..(Len(rest) - 1) : rest[i] # "\n"
        /\ call.arg = <<>> => ~call.ok
        /\ (\A p \in AcceptedPrefixes : ~StartsWith(call.arg, p)) => ~call.ok

\* validate_youtube_url was applied to 'youtu.be/' followed by a line feed
\* alone, and answered false
C16_Witness ==
    /\ call.fn = "validate_youtube_url"
    /\ call.arg = <<"y", "o", "u", "t", "u", ".", "b", "e", "/", "\n">>
    /\ ~call.ok

====
